---- MODULE Spec2Model ----
(***************************************************************************)
(* Option-chain dashboard (dashboard.py): the resampling / aggregation     *)
(* core.  A batch of per-strike snapshots is read from the database,       *)
(* bucketed by get_data_by_timeframe, summarised by calculate_analytics    *)
(* and create_pcr_chart, reshaped by create_pivot_table and listed in the  *)
(* raw data tables; the loaders sit behind st.cache_data.                  *)
(*                                                                         *)
(* A data frame is a record [cols, rows]: cols is the set of column names, *)
(* rows a sequence of functions from cols to values.  Times are seconds    *)
(* since midnight of the selected trading date.                            *)
(***************************************************************************)
EXTENDS Integers, Sequences, FiniteSets, TLC

VARIABLES batch, timeframe_minutes, df, analytics, pcr_chart, pivot_metric,
          pivot_table_df, tables, messages, pc, cache, clock, last

vars == <<batch, timeframe_minutes, df, analytics, pcr_chart, pivot_metric,
          pivot_table_df, tables, messages, pc, cache, clock, last>>

(***************************************************************************)
(* Bounds of the model and the inputs it draws from.                       *)
(***************************************************************************)
\* longest batch the database returns
MaxLen == 2

\* the latest time of the wall clock, in seconds
MaxClock == 60

\* the seconds between two readings of the wall clock
TickSeconds == 30

\* a missing value (SQL NULL, pandas NaN); every real value is >= 0
NaN == -1

\* the interval choices of the sidebar, in minutes
timeframe_options == {1, 5, 15, 30, 60}

Strikes == {17500, 18000}

\* (fetch_time, timestamp) of the polls: 09:15:10, 09:17:02 (two exchange
\* timestamps), 09:20:00 (on a bucket boundary) and 23:58:30 (the last
\* minutes of the selected date)
Ticks == {<<33310, 33300>>, <<33422, 33400>>, <<33422, 33420>>,
          <<33600, 33590>>, <<86310, 86300>>}

\* the metric values of one snapshot: fully populated, partly missing,
\* and with no call open interest
Quotes ==
  { [spot |-> 18010, atm |-> 18000, ce_oi |-> 1000, pe_oi |-> 1500,
     ce_vol |-> 50, pe_vol |-> 60, ce_iv |-> 12, pe_iv |-> 14,
     ce_ltp |-> 120, pe_ltp |-> 95],
    [spot |-> 18020, atm |-> 18000, ce_oi |-> 700, pe_oi |-> NaN,
     ce_vol |-> NaN, pe_vol |-> 30, ce_iv |-> NaN, pe_iv |-> 15,
     ce_ltp |-> 110, pe_ltp |-> 90],
    [spot |-> 17990, atm |-> 17500, ce_oi |-> 0, pe_oi |-> 500,
     ce_vol |-> 0, pe_vol |-> 20, ce_iv |-> 13, pe_iv |-> NaN,
     ce_ltp |-> 130, pe_ltp |-> 100] }

\* the columns of an option-chain table
AllColumns == {"Symbol", "expiry_date", "Strike Price", "fetch_time",
               "timestamp", "Spot Price", "ATM Strike", "CE OI", "PE OI",
               "CE Volume", "PE Volume", "CE IV", "PE IV", "CE LTP", "PE LTP"}

\* columns holding text; they are never missing
TextColumns == {"Symbol", "expiry_date", "time_str"}

\* tables that lack one column of the schema
Schemas == {AllColumns \ {c} :
              c \in {"ATM Strike", "CE OI", "PE Volume", "CE IV", "CE LTP"}}

Snapshot(tick, strike, q) ==
  [c \in AllColumns |->
     CASE c = "Symbol"       -> "NIFTY"
       [] c = "expiry_date"  -> "26-Jun-2025"
       [] c = "Strike Price" -> strike
       [] c = "fetch_time"   -> tick[1]
       [] c = "timestamp"    -> tick[2]
       [] c = "Spot Price"   -> q.spot
       [] c = "ATM Strike"   -> q.atm
       [] c = "CE OI"        -> q.ce_oi
       [] c = "PE OI"        -> q.pe_oi
       [] c = "CE Volume"    -> q.ce_vol
       [] c = "PE Volume"    -> q.pe_vol
       [] c = "CE IV"        -> q.ce_iv
       [] c = "PE IV"        -> q.pe_iv
       [] c = "CE LTP"       -> q.ce_ltp
       [] c = "PE LTP"       -> q.pe_ltp]

Snapshots == {Snapshot(t, s, q) : t \in Ticks, s \in Strikes, q \in Quotes}

Restrict(r, cols) == [c \in cols |-> r[c]]

\* ORDER BY fetch_time ASC, timestamp ASC
OrderedByFetch(rows) ==
  \A i \in 1..(Len(rows) - 1) :
     \/ rows[i]["fetch_time"] < rows[i + 1]["fetch_time"]
     \/ /\ rows[i]["fetch_time"] = rows[i + 1]["fetch_time"]
        /\ rows[i]["timestamp"] <= rows[i + 1]["timestamp"]

Batches ==
  {s \in UNION {[1..n -> Snapshots] : n \in 0..MaxLen} : OrderedByFetch(s)}

(***************************************************************************)
(* pandas primitives                                                       *)
(***************************************************************************)
Max(S) == CHOOSE x \in S : \A y \in S : y <= x

NoFrame == [cols |-> {}, rows |-> <<>>]

\* DataFrame.empty: no rows or no columns
Empty(d) == d.rows = <<>> \/ d.cols = {}

\* GroupBy.last() of one column over the rows at idx: the last value that is
\* not missing, NaN when the group has none
LastValid(rows, idx, c) ==
  IF c \in TextColumns THEN rows[Max(idx)][c]
  ELSE LET ok == {i \in idx : rows[i][c] # NaN}
       IN IF ok = {} THEN NaN ELSE rows[Max(ok)][c]

\* a rounding that goes down to the bucket start instead of up
CeilAsFloor(t, n) == (t \div (n * 60)) * (n * 60)

\* a rounding that always moves on to the next bucket boundary
CeilNext(t, n) == (t \div (n * 60) + 1) * (n * 60)

\* Timestamp.ceil(f'{n}T'): the smallest multiple of n minutes >= t
Ceil(t, n) == ((t + n * 60 - 1) \div (n * 60)) * (n * 60)

\* lexicographic order on (time, strike) keys
KeyLess(a, b) == a[1] < b[1] \/ (a[1] = b[1] /\ a[2] < b[2])

\* a return without the final sort
SortValuesMissing(rows) == rows

\* sort_values(['fetch_time', 'Strike Price']).reset_index(drop=True);
\* rows with equal keys keep their order
SortValues(rows) ==
  LET key(i) == <<rows[i]["fetch_time"], rows[i]["Strike Price"]>>
      rank(i) == Cardinality({j \in DOMAIN rows :
                     KeyLess(key(j), key(i)) \/ (key(j) = key(i) /\ j < i)}) + 1
  IN [p \in DOMAIN rows |-> rows[CHOOSE i \in DOMAIN rows : rank(i) = p]]

\* a bucketing that keeps the last row of each group as it is, missing
\* values included
ResampleLastRow(d, n) ==
  LET rows == d.rows
      key(i) == <<Ceil(rows[i]["fetch_time"], n), rows[i]["Strike Price"]>>
      keys == {key(i) : i \in DOMAIN rows}
      group(k) == {i \in DOMAIN rows : key(i) = k}
      keyAt(p) == CHOOSE k \in keys :
                     Cardinality({j \in keys : KeyLess(j, k)}) + 1 = p
      row(k) == [c \in d.cols |->
                   IF c = "fetch_time" THEN k[1] ELSE rows[Max(group(k))][c]]
  IN [cols |-> d.cols,
      rows |-> [p \in 1..Cardinality(keys) |-> row(keyAt(p))]]

\* groupby(['time_rounded', 'Strike Price']).last().reset_index(), then
\* fetch_time := time_rounded and time_rounded dropped
Resample(d, n) ==
  LET rows == d.rows
      key(i) == <<Ceil(rows[i]["fetch_time"], n), rows[i]["Strike Price"]>>
      keys == {key(i) : i \in DOMAIN rows}
      group(k) == {i \in DOMAIN rows : key(i) = k}
      rank(k) == Cardinality({j \in keys : KeyLess(j, k)}) + 1
      keyAt(p) == CHOOSE k \in keys : rank(k) = p
      row(k) == [c \in d.cols |->
                   CASE c = "fetch_time"   -> k[1]
                     [] c = "Strike Price" -> k[2]
                     [] OTHER              -> LastValid(rows, group(k), c)]
  IN [cols |-> d.cols,
      rows |-> [p \in 1..Cardinality(keys) |-> row(keyAt(p))]]

\* a bucketing applied at every interval, the 1-minute one included
get_data_by_timeframe_always(d, n) ==
  IF {"fetch_time", "Strike Price"} \subseteq d.cols
  THEN LET r == IF ~Empty(d) THEN Resample(d, n) ELSE d
       IN [ret |-> [cols |-> r.cols, rows |-> SortValues(r.rows)], err |-> FALSE]
  ELSE [ret |-> NoFrame, err |-> TRUE]

\* get_data_by_timeframe after the query: [ret |-> frame, err |-> whether
\* the except branch ran]
get_data_by_timeframe(d, n) ==
  IF {"fetch_time", "Strike Price"} \subseteq d.cols
  THEN LET r == IF ~Empty(d) /\ n > 1 THEN Resample(d, n) ELSE d
       IN [ret |-> [cols |-> r.cols, rows |-> SortValues(r.rows)], err |-> FALSE]
  ELSE [ret |-> NoFrame, err |-> TRUE]

(***************************************************************************)
(* calculate_analytics                                                     *)
(***************************************************************************)
EmptyDict == [k \in {} |-> 0]

\* df.groupby('Strike Price').last().reset_index(): one row per strike, in
\* ascending strike order
Latest(d) ==
  LET rows == d.rows
      keys == {rows[i]["Strike Price"] : i \in DOMAIN rows}
      group(k) == {i \in DOMAIN rows : rows[i]["Strike Price"] = k}
      keyAt(p) == CHOOSE k \in keys : Cardinality({j \in keys : j < k}) + 1 = p
      row(k) == [c \in d.cols |->
                   IF c = "Strike Price" THEN k ELSE LastValid(rows, group(k), c)]
  IN [cols |-> d.cols,
      rows |-> [p \in 1..Cardinality(keys) |-> row(keyAt(p))]]

RECURSIVE SumValid(_, _, _)
\* Series.sum() of column c over rows 1..n: missing values are skipped
SumValid(rows, c, n) ==
  IF n = 0 THEN 0
  ELSE SumValid(rows, c, n - 1) + (IF rows[n][c] = NaN THEN 0 ELSE rows[n][c])

Sum(rows, c) == SumValid(rows, c, Len(rows))

\* Series.mean(): the quotient sum / count over the values present, kept as
\* the exact fraction; count 0 is the NaN mean
Mean(rows, c) ==
  [sum |-> Sum(rows, c),
   count |-> Cardinality({i \in DOMAIN rows : rows[i][c] # NaN})]

\* a ratio without the zero guard
PcrUnguarded(total_pe_oi, total_ce_oi) ==
  [num |-> total_pe_oi, den |-> total_ce_oi]

\* total_pe_oi / total_ce_oi if total_ce_oi > 0 else 0, the quotient kept as
\* the exact fraction num / den
Pcr(total_pe_oi, total_ce_oi) ==
  IF total_ce_oi > 0 THEN [num |-> total_pe_oi, den |-> total_ce_oi]
  ELSE [num |-> 0, den |-> 1]

\* the columns calculate_analytics indexes without a test
AnalyticsColumns == {"Strike Price", "Spot Price", "CE OI", "PE OI",
                     "CE Volume", "PE Volume", "CE IV", "PE IV"}

\* the ATM block of calculate_analytics
AtmFields(latest) ==
  IF "ATM Strike" \in latest.cols
  THEN LET atm_strike == latest.rows[1]["ATM Strike"]
           atm_data == SelectSeq(latest.rows,
                                 LAMBDA r : r["Strike Price"] = atm_strike)
       IN IF atm_data # <<>>
          THEN ("atm_ce_oi" :> atm_data[1]["CE OI"]) @@
               ("atm_pe_oi" :> atm_data[1]["PE OI"]) @@
               ("atm_ce_iv" :> atm_data[1]["CE IV"]) @@
               ("atm_pe_iv" :> atm_data[1]["PE IV"])
          ELSE EmptyDict
  ELSE EmptyDict

\* the body of calculate_analytics after its guard, for a frame with rows
Summary(d) ==
  LET latest == Latest(d)
      total_ce_oi == Sum(latest.rows, "CE OI")
      total_pe_oi == Sum(latest.rows, "PE OI")
  IN ("total_strikes" :> Len(latest.rows)) @@
     ("avg_spot_price" :> Mean(latest.rows, "Spot Price")) @@
     ("current_spot" :> latest.rows[1]["Spot Price"]) @@
     ("total_ce_oi" :> total_ce_oi) @@
     ("total_pe_oi" :> total_pe_oi) @@
     ("pcr" :> Pcr(total_pe_oi, total_ce_oi)) @@
     ("total_ce_volume" :> Sum(latest.rows, "CE Volume")) @@
     ("total_pe_volume" :> Sum(latest.rows, "PE Volume")) @@
     ("avg_ce_iv" :> Mean(latest.rows, "CE IV")) @@
     ("avg_pe_iv" :> Mean(latest.rows, "PE IV")) @@
     AtmFields(latest)

\* a summary without the guard for the empty frame: the sums of no rows
calculate_analytics_unguarded(d) ==
  IF ~(AnalyticsColumns \subseteq d.cols)
  THEN [exc |-> "KeyError", ret |-> EmptyDict]
  ELSE IF d.rows = <<>>
  THEN [exc |-> "",
        ret |-> ("total_strikes" :> 0) @@ ("current_spot" :> 0) @@
                ("total_ce_oi" :> 0) @@ ("total_pe_oi" :> 0) @@
                ("pcr" :> Pcr(0, 0)) @@
                ("total_ce_volume" :> 0) @@ ("total_pe_volume" :> 0)]
  ELSE [exc |-> "", ret |-> Summary(d)]

\* calculate_analytics: [exc |-> the exception that escapes ("" for none),
\* ret |-> the dictionary returned]
calculate_analytics(d) ==
  IF Empty(d) THEN [exc |-> "", ret |-> EmptyDict]
  ELSE IF ~(AnalyticsColumns \subseteq d.cols)
  THEN [exc |-> "KeyError", ret |-> EmptyDict]
  ELSE [exc |-> "", ret |-> Summary(d)]

\* Series / Series in floating point: x / 0 is inf, 0 / 0 is nan, and
\* nothing is raised; a number is kept as the exact fraction num / den
Divide(a, b) ==
  IF b # 0 THEN [kind |-> "number", num |-> a, den |-> b]
  ELSE IF a # 0 THEN [kind |-> "inf", num |-> a, den |-> 0]
  ELSE [kind |-> "nan", num |-> 0, den |-> 0]

\* go.Figure() without a trace
NoChart == [exc |-> "", points |-> <<>>]

\* create_pcr_chart: [exc |-> the exception that escapes, points |-> the
\* rows of pcr_data, one per fetch_time in ascending order, with the summed
\* put and call OI and their quotient]
create_pcr_chart(d) ==
  IF Empty(d) THEN NoChart
  ELSE IF ~({"fetch_time", "PE OI", "CE OI"} \subseteq d.cols)
  THEN [exc |-> "KeyError", points |-> <<>>]
  ELSE
    LET times == {d.rows[i]["fetch_time"] : i \in DOMAIN d.rows}
        timeAt(p) == CHOOSE t \in times :
                        Cardinality({u \in times : u < t}) + 1 = p
        at(t) == SelectSeq(d.rows, LAMBDA r : r["fetch_time"] = t)
        point(t) == [fetch_time |-> t,
                     pe_oi |-> Sum(at(t), "PE OI"),
                     ce_oi |-> Sum(at(t), "CE OI"),
                     pcr |-> Divide(Sum(at(t), "PE OI"), Sum(at(t), "CE OI"))]
    IN [exc |-> "",
        points |-> [p \in 1..Cardinality(times) |-> point(timeAt(p))]]

(***************************************************************************)
(* create_pivot_table                                                      *)
(*                                                                         *)
(* The matrix is a record: head, the leading column names in order;        *)
(* instrument, the value of the Instrument column; labels, the time-label  *)
(* columns in order; index, the strikes of the rows in order; cells, one   *)
(* sequence of values per row, aligned with labels.                        *)
(***************************************************************************)
\* pd.DataFrame()
NoPivot == [head |-> <<>>, instrument |-> "", labels |-> <<>>,
            index |-> <<>>, cells |-> <<>>]

\* DataFrame.empty of a matrix
PivotEmpty(p) == p.index = <<>> \/ (p.head = <<>> /\ p.labels = <<>>)

\* the metric choices of the selectbox
pivot_metric_options == {"CE OI", "PE OI", "CE Volume", "PE Volume",
                         "CE Chg in OI", "PE Chg in OI", "CE IV", "PE IV",
                         "CE LTP", "PE LTP"}

\* the choices the model takes: a count, a ratio, and a price
PivotChoices == {"CE OI", "PE IV", "CE LTP"}

\* strftime('%H:%M'): the clock label (hour, minute) of a time, the date
\* dropped; the order of the pairs is the order of the label strings
TimeStr(t) == <<(t \div 3600) % 24, (t \div 60) % 60>>

\* df['time_str'] = df['fetch_time'].dt.strftime('%H:%M'), on the caller's frame
WithTimeStr(d) ==
  [cols |-> d.cols \cup {"time_str"},
   rows |-> [i \in DOMAIN d.rows |->
               [c \in d.cols \cup {"time_str"} |->
                  IF c = "time_str" THEN TimeStr(d.rows[i]["fetch_time"])
                  ELSE d.rows[i][c]]]]

\* df.pivot_table(index='Strike Price', columns='time_str', values=value_col,
\* aggfunc='last'), reset_index, the Instrument column, fillna(0).  A
\* (strike, label) group none of whose values is present is dropped before
\* the reshaping, so a strike or a label left without a group has no row or
\* column.
PivotTable(d, value_col) ==
  LET rows == d.rows
      group(k, l) == {i \in DOMAIN rows :
                        rows[i]["Strike Price"] = k /\ rows[i]["time_str"] = l}
      agged == {<<rows[i]["Strike Price"], rows[i]["time_str"]>> : i \in
                  {j \in DOMAIN rows : rows[j][value_col] # NaN}}
      strikes == {g[1] : g \in agged}
      labels == {g[2] : g \in agged}
      strikeAt(p) == CHOOSE k \in strikes :
                        Cardinality({j \in strikes : j < k}) + 1 = p
      labelAt(p) == CHOOSE l \in labels :
                        Cardinality({j \in labels : KeyLess(j, l)}) + 1 = p
      cell(k, l) == IF <<k, l>> \in agged
                    THEN LastValid(rows, group(k, l), value_col) ELSE 0
  IN [head |-> IF "Symbol" \in d.cols THEN <<"Instrument", "Strike Price">>
               ELSE <<"Strike Price">>,
      instrument |-> IF "Symbol" \in d.cols THEN rows[1]["Symbol"] ELSE "",
      labels |-> [p \in 1..Cardinality(labels) |-> labelAt(p)],
      index |-> [p \in 1..Cardinality(strikes) |-> strikeAt(p)],
      cells |-> [p \in 1..Cardinality(strikes) |->
                   [q \in 1..Cardinality(labels) |->
                      cell(strikeAt(p), labelAt(q))]]]

\* create_pivot_table: [ret |-> the matrix, msg |-> the messages shown,
\* df |-> the caller's frame after the call]
create_pivot_table(d, value_col) ==
  IF Empty(d) \/ value_col \notin d.cols
  THEN [ret |-> NoPivot, msg |-> {"warning"}, df |-> d]
  ELSE IF "fetch_time" \notin d.cols
  THEN [ret |-> NoPivot, msg |-> {"error"}, df |-> d]
  ELSE IF "Strike Price" \notin d.cols
  THEN [ret |-> NoPivot, msg |-> {"error"}, df |-> WithTimeStr(d)]
  ELSE [ret |-> PivotTable(WithTimeStr(d), value_col), msg |-> {},
        df |-> WithTimeStr(d)]

\* the columns of the "Latest Data" table
LatestColumns == {"Symbol", "expiry_date", "fetch_time", "Spot Price",
                  "ATM Strike", "CE OI", "PE OI", "CE LTP", "PE LTP",
                  "timestamp"}

\* the columns the column selector opens with
DefaultColumns == LatestColumns \cup {"CE IV", "PE IV"}

NoTables == [exc |-> "", options |-> {}, shown |-> {}]

\* the raw data tables of the page: df.head(10)[[...]] raises KeyError when a
\* listed column is absent, the multiselect over df.columns raises when one
\* of its defaults is not an option, and the detailed table shows the
\* selected columns.  [exc |-> the exception that ends the request, options
\* |-> the choices of the selector, shown |-> the columns of the detailed
\* table]
raw_data_tables(d) ==
  IF ~(LatestColumns \subseteq d.cols)
  THEN [exc |-> "KeyError", options |-> {}, shown |-> {}]
  ELSE IF ~(DefaultColumns \subseteq d.cols)
  THEN [exc |-> "StreamlitAPIException", options |-> d.cols, shown |-> {}]
  ELSE [exc |-> "", options |-> d.cols, shown |-> DefaultColumns]

(***************************************************************************)
(* The memoization layer (st.cache_data)                                   *)
(***************************************************************************)
\* the functions under @st.cache_data
Memoized == {"get_available_symbols", "get_available_expiries",
             "get_available_dates", "get_data_by_timeframe",
             "get_dashboard_stats"}

\* the ttl of a memoized function, in seconds
Ttl(fn) == IF fn = "get_data_by_timeframe" THEN 30 ELSE 60

\* the calls the page makes: <<function, argument>>, the argument being the
\* interval for get_data_by_timeframe
CacheKeys == {<<fn, 0>> : fn \in Memoized \ {"get_data_by_timeframe"}}
               \cup {<<"get_data_by_timeframe", n>> : n \in {1, 5}}

\* a cache maps the keys it holds to the time their value was stored
EmptyCache == [k \in {} |-> 0]

\* the entry of key k can answer a call at time now
Fresh(c, k, now) == k \in DOMAIN c /\ now - c[k] < Ttl(k[1])

\* storing the value the Loader returned for key k
Store(c, k, now) ==
  [x \in DOMAIN c \cup {k} |-> IF x = k THEN now ELSE c[x]]

\* a reset of the entries of get_data_by_timeframe alone
ClearDataOnly(c) ==
  [k \in {x \in DOMAIN c : x[1] # "get_data_by_timeframe"} |-> c[k]]

\* st.cache_data.clear(): every entry of every memoized function goes
Clear(c) == EmptyCache

NoCall == [op |-> "", key |-> <<"", 0>>, hit |-> FALSE, dropped |-> 0]

(***************************************************************************)
(* The program                                                             *)
(***************************************************************************)
NoAnalytics == [exc |-> "", ret |-> EmptyDict]

Frames(schemas) ==
  {[cols |-> s, rows |-> [i \in DOMAIN b |-> Restrict(b[i], s)]] :
     s \in schemas, b \in Batches}

InitWith(schemas) ==
  /\ batch \in Frames(schemas)
  /\ timeframe_minutes = 0
  /\ df = NoFrame
  /\ analytics = NoAnalytics
  /\ pcr_chart = NoChart
  /\ pivot_metric = ""
  /\ pivot_table_df = NoPivot
  /\ tables = NoTables
  /\ messages = {}
  /\ pc = "query"
  /\ cache = EmptyCache
  /\ clock = 0
  /\ last = NoCall

\* the tables have the whole schema
Init == InitWith({AllColumns})

\* the tables lack a column
InitSchema == InitWith(Schemas)

GetDataByTimeframe(n) ==
  /\ pc = "query"
  /\ LET r == get_data_by_timeframe(batch, n)
     IN /\ df' = r.ret
        /\ messages' = IF r.err THEN messages \cup {"error"} ELSE messages
  /\ timeframe_minutes' = n
  /\ pc' = "data"
  /\ UNCHANGED <<batch, analytics, pcr_chart, pivot_metric, pivot_table_df,
                 tables, cache, clock, last>>

\* the analytics section and the put-call ratio chart of the charts section;
\* an exception of calculate_analytics ends the request before the chart
CalculateAnalytics ==
  /\ pc = "data"
  /\ analytics' = calculate_analytics(df)
  /\ pcr_chart' = IF analytics'.exc = "" THEN create_pcr_chart(df)
                  ELSE pcr_chart
  /\ pc' = "analytics"
  /\ UNCHANGED <<batch, timeframe_minutes, df, pivot_metric, pivot_table_df,
                 tables, messages, cache, clock, last>>

\* the pivot section and the raw data tables after it.  An exception of
\* calculate_analytics has ended the request before; the tables are drawn
\* from the frame as create_pivot_table left it, under main's guard that the
\* frame has rows.
CreatePivotTable(value_col) ==
  /\ pc = "analytics"
  /\ analytics.exc = ""
  /\ LET r == create_pivot_table(df, value_col)
     IN /\ pivot_table_df' = r.ret
        /\ df' = r.df
        /\ messages' = messages \cup r.msg
  /\ tables' = IF Empty(df') THEN tables ELSE raw_data_tables(df')
  /\ pivot_metric' = value_col
  /\ pc' = "pivot"
  /\ UNCHANGED <<batch, timeframe_minutes, analytics, pcr_chart, cache, clock,
                 last>>

Next ==
  \/ \E n \in timeframe_options : GetDataByTimeframe(n)
  \/ CalculateAnalytics
  \/ \E value_col \in PivotChoices : CreatePivotTable(value_col)

Spec == Init /\ [][Next]_vars

SpecSchema == InitSchema /\ [][Next]_vars

\* The memoization layer on its own: the calls of the page to the memoized
\* functions, the passing of time and the Refresh button; what the Loader
\* returns is left out.
page == <<batch, timeframe_minutes, df, analytics, pcr_chart, pivot_metric,
          pivot_table_df, tables, messages, pc>>

InitCache ==
  /\ batch = [cols |-> AllColumns, rows |-> <<>>]
  /\ timeframe_minutes = 0
  /\ df = NoFrame
  /\ analytics = NoAnalytics
  /\ pcr_chart = NoChart
  /\ pivot_metric = ""
  /\ pivot_table_df = NoPivot
  /\ tables = NoTables
  /\ messages = {}
  /\ pc = "query"
  /\ cache = EmptyCache
  /\ clock = 0
  /\ last = NoCall

\* a call of a memoized function: answered from the cache when the key has
\* an entry younger than the ttl, else the function body runs and its
\* value is stored
Request(k) ==
  /\ IF Fresh(cache, k, clock)
     THEN /\ cache' = cache
          /\ last' = [op |-> "call", key |-> k, hit |-> TRUE, dropped |-> 0]
     ELSE /\ cache' = Store(cache, k, clock)
          /\ last' = [op |-> "call", key |-> k, hit |-> FALSE, dropped |-> 0]
  /\ UNCHANGED <<page, clock>>

Tick ==
  /\ clock + TickSeconds <= MaxClock
  /\ clock' = clock + TickSeconds
  /\ last' = [NoCall EXCEPT !.op = "tick"]
  /\ UNCHANGED <<page, cache>>

\* the Refresh button: st.cache_data.clear(), then st.rerun() starts the
\* script over
Refresh ==
  /\ cache' = Clear(cache)
  /\ last' = [NoCall EXCEPT !.op = "refresh",
                            !.dropped = Cardinality(DOMAIN cache)]
  /\ UNCHANGED <<page, clock>>

NextCache ==
  \/ \E k \in CacheKeys : Request(k)
  \/ Tick
  \/ Refresh

SpecCache == InitCache /\ [][NextCache]_vars

(***************************************************************************)
(* Properties of the Resampler (get_data_by_timeframe)                     *)
(***************************************************************************)
\* b is the smallest multiple of n minutes that is >= t
IsCeiling(b, t, n) == b % (n * 60) = 0 /\ b >= t /\ b - t < n * 60

\* the (fetch_time, strike) pairs of a sequence of rows
Pairs(rows) ==
  {<<rows[i]["fetch_time"], rows[i]["Strike Price"]>> : i \in DOMAIN rows}

\* no two rows have the same (fetch_time, strike)
OnePerPair(rows) ==
  \A i, j \in DOMAIN rows :
     (/\ rows[i]["fetch_time"] = rows[j]["fetch_time"]
      /\ rows[i]["Strike Price"] = rows[j]["Strike Price"]) => i = j

\* the pairs of out are exactly the (ceiling, strike) pairs of in
CeilingPairs(in, out, n) ==
  /\ \A i \in DOMAIN in : \E o \in DOMAIN out :
        /\ IsCeiling(out[o]["fetch_time"], in[i]["fetch_time"], n)
        /\ out[o]["Strike Price"] = in[i]["Strike Price"]
  /\ \A o \in DOMAIN out : \E i \in DOMAIN in :
        /\ IsCeiling(out[o]["fetch_time"], in[i]["fetch_time"], n)
        /\ out[o]["Strike Price"] = in[i]["Strike Price"]

\* C1 as stated: at every interval, 1 included, the output has at most one
\* row per (bucket_time, strike) and its pairs are exactly the (ceiling of
\* fetch_time to the interval, strike) pairs of the input.
C1_CeilingAtEveryInterval ==
  pc = "data" =>
    /\ OnePerPair(df.rows)
    /\ CeilingPairs(batch.rows, df.rows, timeframe_minutes)

\* C1 amended: at the intervals 5, 15, 30 and 60 the output has at most one
\* row per (bucket_time, strike) and its pairs are exactly the (ceiling,
\* strike) pairs of the input; at interval 1 no ceiling is taken and no rows
\* are merged: the output has as many rows as the input and its
\* (fetch_time, strike) pairs are the input's own.
C1_BucketPairs ==
  pc = "data" =>
    IF timeframe_minutes > 1
    THEN /\ OnePerPair(df.rows)
         /\ CeilingPairs(batch.rows, df.rows, timeframe_minutes)
    ELSE /\ Len(df.rows) = Len(batch.rows)
         /\ Pairs(df.rows) = Pairs(batch.rows)

\* two snapshots of one strike fell into one 5-minute bucket
C1_Witness ==
  /\ pc = "data"
  /\ timeframe_minutes = 5
  /\ Len(batch.rows) = 2
  /\ Len(df.rows) = 1
  /\ batch.rows[1]["fetch_time"] # batch.rows[2]["fetch_time"]

\* (fetch_time, timestamp) of row a is at least that of row b
NotOlder(a, b) ==
  \/ a["fetch_time"] > b["fetch_time"]
  \/ /\ a["fetch_time"] = b["fetch_time"]
     /\ a["timestamp"] >= b["timestamp"]

\* the input rows that fall into the bucket of output row o
GroupOf(o, n) ==
  {i \in DOMAIN batch.rows :
     /\ batch.rows[i]["Strike Price"] = o["Strike Price"]
     /\ IsCeiling(o["fetch_time"], batch.rows[i]["fetch_time"], n)}

\* C2: every row emitted for a (bucket_time, strike) group is the group's
\* snapshot with the greatest (fetch_time, timestamp): each of its fields
\* other than the bucket time equals that single snapshot's field.
C2_RepresentativeSnapshot ==
  (pc = "data" /\ timeframe_minutes > 1) =>
    \A o \in DOMAIN df.rows :
       \E i \in GroupOf(df.rows[o], timeframe_minutes) :
          /\ \A j \in GroupOf(df.rows[o], timeframe_minutes) :
                NotOlder(batch.rows[i], batch.rows[j])
          /\ \A c \in df.cols \ {"fetch_time"} :
                df.rows[o][c] = batch.rows[i][c]

\* C3 as stated: at interval 1 the output is the input, row for row, in the
\* input's order.
C3_Identity ==
  (pc = "data" /\ timeframe_minutes = 1) => df.rows = batch.rows

\* how often row r occurs in rows
Count(rows, r) == Cardinality({i \in DOMAIN rows : rows[i] = r})

\* the rows of a sequence with the given fetch_time and strike, in order
SameKey(rows, k) ==
  SelectSeq(rows, LAMBDA r : r["fetch_time"] = k[1] /\ r["Strike Price"] = k[2])

\* C3 amended: at interval 1 the output holds exactly the input's
\* snapshots, each as often as the input, with fetch_time unchanged; rows
\* of different fetch times, and rows of one fetch time and strike, keep
\* their relative order, while the rows of one fetch time are put in
\* ascending strike order.
C3_Reprojection ==
  (pc = "data" /\ timeframe_minutes = 1) =>
    /\ Len(df.rows) = Len(batch.rows)
    /\ \A i \in DOMAIN batch.rows :
          Count(df.rows, batch.rows[i]) = Count(batch.rows, batch.rows[i])
    /\ \A i \in DOMAIN df.rows :
          df.rows[i]["fetch_time"] = batch.rows[i]["fetch_time"]
    /\ \A k \in Pairs(batch.rows) : SameKey(df.rows, k) = SameKey(batch.rows, k)
    /\ \A i \in 1..(Len(df.rows) - 1) :
          df.rows[i]["fetch_time"] = df.rows[i + 1]["fetch_time"] =>
             df.rows[i]["Strike Price"] <= df.rows[i + 1]["Strike Price"]

\* at interval 1 two snapshots of one fetch time came out in the other order
C3_Witness ==
  /\ pc = "data"
  /\ timeframe_minutes = 1
  /\ Len(batch.rows) = 2
  /\ df.rows[1] = batch.rows[2]
  /\ df.rows[2] = batch.rows[1]
  /\ df.rows[1] # df.rows[2]

\* C4: the rows returned are in ascending (bucket_time, strike) order.
C4_Sorted ==
  pc = "data" =>
    \A i \in 1..(Len(df.rows) - 1) :
       \/ df.rows[i]["fetch_time"] < df.rows[i + 1]["fetch_time"]
       \/ /\ df.rows[i]["fetch_time"] = df.rows[i + 1]["fetch_time"]
          /\ df.rows[i]["Strike Price"] <= df.rows[i + 1]["Strike Price"]

\* two buckets came out, the strike of the later one below the earlier one's
C4_Witness ==
  /\ pc = "data"
  /\ timeframe_minutes = 5
  /\ Len(df.rows) = 2
  /\ df.rows[1]["fetch_time"] < df.rows[2]["fetch_time"]
  /\ df.rows[1]["Strike Price"] > df.rows[2]["Strike Price"]

(***************************************************************************)
(* Properties of the AnalyticsEngine (calculate_analytics)                 *)
(***************************************************************************)
\* calculate_analytics was given a frame with rows and returned
Analysed == pc = "analytics" /\ df.rows # <<>> /\ analytics.exc = ""

\* C5 as stated: the ratio is >= 0 and is 0 exactly when the total call OI
\* is 0.
C5_ZeroExactlyWhenNoCallOI ==
  Analysed =>
    LET a == analytics.ret
    IN /\ a["pcr"].den > 0
       /\ a["pcr"].num >= 0
       /\ a["pcr"].num = 0 <=> a["total_ce_oi"] = 0

\* C5 amended: the ratio is a defined number >= 0; it is 0 whenever the
\* total call OI is 0, whatever the total put OI, and it is 0 exactly when
\* the total call OI or the total put OI is 0.
C5_ZeroGuard ==
  Analysed =>
    LET a == analytics.ret
    IN /\ a["pcr"].den > 0
       /\ a["pcr"].num >= 0
       /\ a["total_ce_oi"] = 0 => a["pcr"].num = 0
       /\ a["pcr"].num = 0 <=> (a["total_ce_oi"] = 0 \/ a["total_pe_oi"] = 0)

\* no call OI against some put OI
C5_Witness ==
  /\ Analysed
  /\ analytics.ret["total_ce_oi"] = 0
  /\ analytics.ret["total_pe_oi"] > 0
  /\ analytics.ret["pcr"].num = 0

\* the strikes of the frame given to calculate_analytics
StrikesOf(rows) == {rows[i]["Strike Price"] : i \in DOMAIN rows}

\* the rows of strike k with the greatest (fetch_time, timestamp)
LatestOf(rows, k) ==
  {i \in DOMAIN rows :
     /\ rows[i]["Strike Price"] = k
     /\ \A j \in DOMAIN rows :
           rows[j]["Strike Price"] = k => NotOlder(rows[i], rows[j])}

\* one latest snapshot per strike
LatestPicks(rows) ==
  {pick \in [StrikesOf(rows) -> DOMAIN rows] :
     \A k \in StrikesOf(rows) : pick[k] \in LatestOf(rows, k)}

RECURSIVE SumPicked(_, _, _, _)
\* the sum of column c over the picked snapshots of the strikes in S
SumPicked(rows, pick, S, c) ==
  IF S = {} THEN 0
  ELSE LET k == CHOOSE x \in S : TRUE
           v == rows[pick[k]][c]
       IN (IF v = NaN THEN 0 ELSE v) + SumPicked(rows, pick, S \ {k}, c)

\* C6: each strike counts once, by its latest snapshot: total_strikes is
\* the number of strikes, the OI totals are the sums over the latest
\* snapshots only, and with call OI > 0 the ratio is put OI / call OI.
C6_LatestSnapshotTotals ==
  Analysed =>
    \E pick \in LatestPicks(df.rows) :
       LET a == analytics.ret
           ce == SumPicked(df.rows, pick, StrikesOf(df.rows), "CE OI")
           pe == SumPicked(df.rows, pick, StrikesOf(df.rows), "PE OI")
       IN /\ a["total_strikes"] = Cardinality(StrikesOf(df.rows))
          /\ a["total_ce_oi"] = ce
          /\ a["total_pe_oi"] = pe
          /\ ce > 0 => a["pcr"].num * ce = a["pcr"].den * pe

\* C7: the summary of the bucketed series is the summary of the raw batch,
\* at every interval.
C7_BucketIndependent ==
  pc = "analytics" => analytics = calculate_analytics(batch)

\* a 5-minute bucket merged two snapshots, the later one with a missing
\* value, and the summary was computed from the merged row
C7_Witness ==
  /\ Analysed
  /\ timeframe_minutes = 5
  /\ Len(batch.rows) = 2
  /\ Len(df.rows) = 1
  /\ batch.rows[2]["PE OI"] = NaN
  /\ batch.rows[1]["PE OI"] # NaN

AtmKeys == {"atm_ce_oi", "atm_pe_oi", "atm_ce_iv", "atm_pe_iv"}

\* C8: the four ATM fields are present exactly when the ATM strike is a
\* strike of the view, all four together, and then equal the values of the
\* latest snapshot of that strike.
C8_AtmFields ==
  Analysed =>
    \E pick \in LatestPicks(df.rows) :
       LET a == analytics.ret
           low == CHOOSE k \in StrikesOf(df.rows) :
                     \A j \in StrikesOf(df.rows) : k <= j
           atm == df.rows[pick[low]]["ATM Strike"]
       IN /\ AtmKeys \subseteq DOMAIN a <=> atm \in StrikesOf(df.rows)
          /\ AtmKeys \cap DOMAIN a # {} => AtmKeys \subseteq DOMAIN a
          /\ AtmKeys \subseteq DOMAIN a =>
                /\ a["atm_ce_oi"] = df.rows[pick[atm]]["CE OI"]
                /\ a["atm_pe_oi"] = df.rows[pick[atm]]["PE OI"]
                /\ a["atm_ce_iv"] = df.rows[pick[atm]]["CE IV"]
                /\ a["atm_pe_iv"] = df.rows[pick[atm]]["PE IV"]

\* the columns each field of the summary is computed from
FieldColumns ==
  ("total_strikes" :> {"Strike Price"}) @@
  ("avg_spot_price" :> {"Spot Price"}) @@
  ("current_spot" :> {"Spot Price"}) @@
  ("total_ce_oi" :> {"CE OI"}) @@
  ("total_pe_oi" :> {"PE OI"}) @@
  ("pcr" :> {"CE OI", "PE OI"}) @@
  ("total_ce_volume" :> {"CE Volume"}) @@
  ("total_pe_volume" :> {"PE Volume"}) @@
  ("avg_ce_iv" :> {"CE IV"}) @@
  ("avg_pe_iv" :> {"PE IV"})

\* C9: with a metric column missing from a batch with rows,
\* calculate_analytics still returns, and every field whose columns are
\* there is in the summary.
C9_MissingColumnDegrades ==
  (pc = "analytics" /\ df.rows # <<>>) =>
    /\ analytics.exc = ""
    /\ \A f \in DOMAIN FieldColumns :
          FieldColumns[f] \subseteq df.cols => f \in DOMAIN analytics.ret

(***************************************************************************)
(* Empty input                                                             *)
(***************************************************************************)
\* C10: from an empty batch, at every interval, the Resampler returns an
\* empty series, calculate_analytics an empty summary and
\* create_pivot_table an empty matrix, and no exception is raised.
C10_EmptyInput ==
  batch.rows = <<>> =>
    /\ pc # "query" => df.rows = <<>>
    /\ pc \in {"analytics", "pivot"} => analytics = [exc |-> "", ret |-> EmptyDict]
    /\ pc = "pivot" => PivotEmpty(pivot_table_df)
    /\ "error" \notin messages

\* the three calls were made on an empty batch
C10_Witness ==
  /\ batch.rows = <<>>
  /\ pc = "pivot"
  /\ timeframe_minutes = 15
  /\ "warning" \in messages

(***************************************************************************)
(* Properties of the PivotMatrix (create_pivot_table)                      *)
(***************************************************************************)
\* the matrix was built for a metric that is a column of a batch with rows
Pivoted == pc = "pivot" /\ batch.rows # <<>> /\ pivot_metric \in batch.cols

\* the clock label of a fetch time: its hour and minute
LabelOf(t) == <<(t \div 3600) % 24, (t % 3600) \div 60>>

\* the distinct labels of a sequence of rows
LabelsOf(rows) == {LabelOf(rows[i]["fetch_time"]) : i \in DOMAIN rows}

\* the rows of strike k observed at label l
ObservedAt(rows, k, l) ==
  {i \in DOMAIN rows :
     rows[i]["Strike Price"] = k /\ LabelOf(rows[i]["fetch_time"]) = l}

\* C11: for a batch with rows and a metric that is one of its columns, the
\* matrix has exactly one row per distinct strike of the input and one data
\* column per distinct time label, also when some snapshots carry no value
\* for the metric; every (strike, label) without an observation holds 0.
C11_OneCellPerStrikeAndLabel ==
  Pivoted =>
    LET m == pivot_table_df
    IN /\ {m.index[p] : p \in DOMAIN m.index} = StrikesOf(df.rows)
       /\ Len(m.index) = Cardinality(StrikesOf(df.rows))
       /\ {m.labels[q] : q \in DOMAIN m.labels} = LabelsOf(df.rows)
       /\ Len(m.labels) = Cardinality(LabelsOf(df.rows))
       /\ DOMAIN m.cells = DOMAIN m.index
       /\ \A p \in DOMAIN m.cells :
             /\ DOMAIN m.cells[p] = DOMAIN m.labels
             /\ \A q \in DOMAIN m.labels :
                   ObservedAt(df.rows, m.index[p], m.labels[q]) = {}
                      => m.cells[p][q] = 0

\* a value as the matrix shows it: a missing one reads 0
Shown(v) == IF v = NaN THEN 0 ELSE v

\* C12: each cell with at least one observation equals the metric's value in
\* the last snapshot observed at that label for that strike, the last being
\* the one with the greatest fetch_time, then the greatest timestamp.
C12_CellIsLastSnapshot ==
  Pivoted =>
    LET m == pivot_table_df
    IN \A p \in DOMAIN m.index : \A q \in DOMAIN m.labels :
         LET obs == ObservedAt(df.rows, m.index[p], m.labels[q])
         IN obs # {} =>
              \E i \in obs :
                 /\ \A j \in obs : NotOlder(df.rows[i], df.rows[j])
                 /\ m.cells[p][q] = Shown(df.rows[i][pivot_metric])

\* the rows in the opposite order
Reversed(d) ==
  [cols |-> d.cols,
   rows |-> [i \in DOMAIN d.rows |-> d.rows[Len(d.rows) + 1 - i]]]

\* C13: the columns are Instrument, Strike Price, then the labels; the rows
\* ascend by strike; the labels stand in the chronological order of the
\* observations they stand for; and the same data in another row order
\* gives the same column sequence.
C13_ColumnOrder ==
  (Pivoted /\ ~PivotEmpty(pivot_table_df)) =>
    LET m == pivot_table_df
    IN /\ m.head = <<"Instrument", "Strike Price">>
       /\ \A p, q \in DOMAIN m.index : p < q => m.index[p] < m.index[q]
       /\ \A p, q \in DOMAIN m.labels : p < q =>
             \A i, j \in DOMAIN df.rows :
                ( /\ LabelOf(df.rows[i]["fetch_time"]) = m.labels[p]
                  /\ LabelOf(df.rows[j]["fetch_time"]) = m.labels[q] )
                   => df.rows[i]["fetch_time"] < df.rows[j]["fetch_time"]
       /\ create_pivot_table(Reversed(df), pivot_metric).ret.labels = m.labels

\* C14: when the selected metric is not a column of a batch with rows,
\* create_pivot_table returns an empty matrix and shows a warning, raises
\* nothing, and the request goes on to render the rest of the page, the raw
\* data tables, without a pivot chart or table.
C14_MissingMetricWarns ==
  (pc = "pivot" /\ batch.rows # <<>> /\ pivot_metric \notin batch.cols) =>
    /\ PivotEmpty(pivot_table_df)
    /\ "warning" \in messages
    /\ "error" \notin messages
    /\ tables.exc = ""
    /\ tables.shown # {}

\* C18: create_pivot_table has no effect on the frame it is given: after the
\* call the caller's frame has the columns and the fetch_time values the
\* Resampler returned, and the column selector drawn after it offers those
\* columns.
C18_BatchUntouched ==
  pc = "pivot" =>
    LET before == get_data_by_timeframe(batch, timeframe_minutes).ret
    IN /\ df.cols = before.cols
       /\ [i \in DOMAIN df.rows |-> df.rows[i]["fetch_time"]]
             = [i \in DOMAIN before.rows |-> before.rows[i]["fetch_time"]]
       /\ tables.exc = "" /\ df.rows # <<>> => tables.options = before.cols

(***************************************************************************)
(* The put-call ratio over time (create_pcr_chart)                         *)
(***************************************************************************)
\* C17: every put-call ratio the program computes resolves a zero call OI
\* to 0: in create_pcr_chart a bucket whose summed call OI is 0 gets the
\* ratio 0, never an infinite or undefined one; and the ratio of the
\* summary is 0 when the total call OI is 0.
C17_ChartZeroGuard ==
  /\ \A p \in DOMAIN pcr_chart.points :
        LET pt == pcr_chart.points[p]
        IN /\ pt.pcr.kind = "number"
           /\ pt.ce_oi = 0 => pt.pcr.num = 0
  /\ (Analysed /\ analytics.ret["total_ce_oi"] = 0) =>
        analytics.ret["pcr"].num = 0

(***************************************************************************)
(* Repeating a computation                                                 *)
(***************************************************************************)
\* C15: resampling the Resampler's own output again at the same interval
\* returns that output unchanged; and a second run of calculate_analytics
\* or create_pivot_table on the frame the page holds gives the result of
\* the first.
C15_Idempotent ==
  /\ pc \in {"data", "analytics"} =>
        get_data_by_timeframe(df, timeframe_minutes)
          = [ret |-> df, err |-> FALSE]
  /\ pc = "pivot" =>
        /\ calculate_analytics(df) = analytics
        /\ create_pivot_table(df, pivot_metric).ret = pivot_table_df

\* an output of two buckets whose times are not the fetch times of the batch
C15_Witness ==
  /\ pc = "data"
  /\ timeframe_minutes = 5
  /\ Len(df.rows) = 2
  /\ df.rows[1]["fetch_time"] # df.rows[2]["fetch_time"]
  /\ \A i \in DOMAIN df.rows : \A j \in DOMAIN batch.rows :
        df.rows[i]["fetch_time"] # batch.rows[j]["fetch_time"]

(***************************************************************************)
(* Properties of the memoization layer                                     *)
(***************************************************************************)
\* C16: Refresh empties the whole memoization layer at once: after it no
\* entry of any memoized function remains for any key, so the next call for
\* every key runs the Loader again; without Refresh a repeated call inside
\* the ttl is answered from the cache; and no step removes the entry of one
\* key while leaving another.
C16_RefreshClearsAll ==
  [][ /\ last'.op = "refresh" => cache' = EmptyCache
      /\ (last.op = "refresh" /\ last'.op = "call") => ~last'.hit
      /\ (last'.op = "call" /\ last'.hit) =>
            /\ last'.key \in DOMAIN cache
            /\ clock - cache[last'.key] < Ttl(last'.key[1])
            /\ cache' = cache
      /\ ( /\ last'.op = "call"
           /\ last'.key \in DOMAIN cache
           /\ clock - cache[last'.key] < Ttl(last'.key[1]) ) => last'.hit
      /\ (\E k \in DOMAIN cache : k \notin DOMAIN cache') =>
            (last'.op = "refresh" /\ cache' = EmptyCache)
    ]_vars

\* Refresh was pressed while the cache held entries of several functions
C16_Witness ==
  /\ last.op = "refresh"
  /\ last.dropped >= 3
  /\ cache = EmptyCache

====
